---- MODULE Spec2Model ----
(***************************************************************************)
(* Model of credit_rate_limit/rate_limiter.py: CreditRateLimiter and       *)
(* CountRateLimiter used by asyncio tasks through the wrappers             *)
(* credit_rate_limit / rate_limit.                                         *)
(*                                                                         *)
(* Scheduling: asyncio is single-threaded and cooperative, so one action   *)
(* is the code a task runs between two suspension points.  The only        *)
(* suspension points are `await asyncio.sleep(self.retry)` inside          *)
(* __aenter__ and `await func(...)` inside the wrapper.                    *)
(*                                                                         *)
(* Time: time.time() is an integer clock that never decreases.  A pass of  *)
(* __aenter__ holds no suspension point and takes no time at the clock's   *)
(* resolution, so its two reads of time.time() return the same value.      *)
(* retry (default 0.1 s) is below the clock's resolution too: a task       *)
(* suspended in asyncio.sleep(retry) may resume at the clock value it went *)
(* to sleep at or at any later one.                                        *)
(*                                                                         *)
(* Each task performs one wrapped call on the limiter it is bound to; the  *)
(* tasks are interchangeable, so the first k are bound to the credit       *)
(* limiter and the others to the count limiter, for every k.               *)
(* Entries of the two lists carry, besides the fields the code stores, the *)
(* id of the task that appended them; no action reads it, it only lets the *)
(* properties follow one admission.                                        *)
(*                                                                         *)
(* Spec / FairSpec run the tasks through the instance decorators.  ApiSpec *)
(* covers the rest of the module's interface: the two constructors, the    *)
(* decorator factory throughput, and calls through the attribute-based     *)
(* wrappers, which either raise or hand over to the instance decorators.   *)
(***************************************************************************)
EXTENDS Integers, Sequences, FiniteSets

\* ---------------------------------------------------------------- bounds
NumTasks == 2
MaxWeight == 3

\* ------------------------------------------------- limiter configuration
max_credits == 2
max_count == 1
interval == 1

Tasks == 1..NumTasks
Weights == 1..MaxWeight

VARIABLES
    clock,                \* time.time()
    timestamped_credits,  \* CreditRateLimiter.timestamped_credits
    request_credits,      \* CreditRateLimiter.request_credits
    timestamps,           \* CountRateLimiter.timestamps
    uses,                 \* the limiter each task's wrapped function is bound to
    via,                  \* the decorator that wrapped each task's function
    pc,                   \* each task's position in the wrapper
    weight,               \* the request_credits of each task's call in progress, 0 outside
    result,               \* how each task's wrapped call ended
    adm,                  \* history: the timestamp each task's admission recorded, -1 before
    released,             \* history: how often each task's entry was popped
    waited,               \* history: whether a pass of __aenter__ sent the task to sleep
    emitted,              \* the records the latest step passed to logging.debug
    bind                  \* the latest constructor or decorator-factory call and its outcome

vars == <<clock, timestamped_credits, request_credits, timestamps, uses, via,
          pc, weight, result, adm, released, waited, emitted, bind>>

\* ------------------------------------------------------------- helpers
RECURSIVE SumCredits(_)
SumCredits(s) ==
    IF s = <<>> THEN 0 ELSE Head(s).credits + SumCredits(Tail(s))

\* CreditRateLimiter.credit_sum
credit_sum(pool) == SumCredits(pool)

\* mutant of Expired: `>=` for `>`, an entry is dropped when exactly interval old
ExpiredAtInterval(now, ts) == now - ts >= interval

\* mutant of Expired: the operands of the subtraction swapped, nothing expires
ExpiredSwapped(now, ts) == ts - now > interval

\* mutant of Expired: an entry is kept one clock unit longer than interval
ExpiredLate(now, ts) == now - ts > interval + 1

\* the purge test of both __aenter__ loops: now - ts > self.interval
Expired(now, ts) == now - ts > interval

\* mutant of Purge: `if` for the inner `while`, at most one entry is popped
PurgeOnce(pool, now) ==
    IF pool # <<>> /\ now - Head(pool).ts > interval THEN Tail(pool) ELSE pool

\* mutant of Purge: the head is popped without the test of its age
PurgeUnconditional(pool, now) ==
    IF pool # <<>> THEN Tail(pool) ELSE pool

\* the inner `while` of both __aenter__: pop expired entries off the head,
\* stop at the first entry that is not expired
RECURSIVE Purge(_, _)
Purge(pool, now) ==
    IF pool # <<>> /\ Expired(now, Head(pool).ts)
    THEN Purge(Tail(pool), now)
    ELSE pool

\* the admission test of CreditRateLimiter.__aenter__
CreditHasRoom(pool) == credit_sum(pool) < max_credits

\* mutant of CountHasRoom: the entries of the credit limiter are counted
\* too, as if the two lists were one shared registry
CountHasRoomShared(pool) == Len(pool) + Len(timestamped_credits) < max_count

\* mutant of CountHasRoom: `<=` for `<`
CountHasRoomOffByOne(pool) == Len(pool) <= max_count

\* the admission test of CountRateLimiter.__aenter__
CountHasRoom(pool) == Len(pool) < max_count

Ids(pool) == {pool[i].id : i \in 1..Len(pool)}

\* history: every entry that left the list was popped once more
Release(old, new) ==
    [t \in Tasks |-> released[t] + (IF t \in Ids(old) \ Ids(new) THEN 1 ELSE 0)]

\* the records logged by the purge loop of CreditRateLimiter.__aenter__:
\* "is back under its limit" for each pop that takes credit_sum() from
\* max_credits or more to less
RECURSIVE CreditPurgeLog(_, _)
CreditPurgeLog(pool, now) ==
    IF pool # <<>> /\ Expired(now, Head(pool).ts)
    THEN (IF credit_sum(pool) >= max_credits /\ max_credits > credit_sum(Tail(pool))
          THEN <<"credit_back">> ELSE <<>>) \o CreditPurgeLog(Tail(pool), now)
    ELSE <<>>

\* the test before "has reached its limit" in CreditRateLimiter.__aenter__:
\* current_credits < self.max_credits <= self.credit_sum()
CreditReachedLogged(current_credits, sum, max) ==
    current_credits < max /\ max <= sum

\* the records logged by the purge loop of CountRateLimiter.__aenter__:
\* "is back under its limit" for the pop that leaves max_count - 1 entries
RECURSIVE CountPurgeLog(_, _)
CountPurgeLog(pool, now) ==
    IF pool # <<>> /\ Expired(now, Head(pool).ts)
    THEN (IF Len(Tail(pool)) = max_count - 1
          THEN <<"count_back">> ELSE <<>>) \o CountPurgeLog(Tail(pool), now)
    ELSE <<>>

\* mutant of CountReachedLogged: `>` for `==`
CountReachedLoggedStrict(pool) == Len(pool) > max_count

\* the test before "has reached its limit" in CountRateLimiter.__aenter__,
\* on the list after the append
CountReachedLogged(pool) == Len(pool) = max_count

\* no constructor or decorator factory has been called
NoBind == [op |-> "none"]

\* ---------------------------------------------------------------- Init
\* two freshly constructed limiters and tasks that have not called yet
InitLimiters ==
    /\ clock = 0
    /\ timestamped_credits = <<>>
    /\ request_credits = -1
    /\ timestamps = <<>>
    /\ \E k \in 0..NumTasks :
            uses = [t \in Tasks |-> IF t <= k THEN "credit" ELSE "count"]
    /\ pc = [t \in Tasks |-> "start"]
    /\ weight = [t \in Tasks |-> 0]
    /\ result = [t \in Tasks |-> "none"]
    /\ adm = [t \in Tasks |-> -1]
    /\ released = [t \in Tasks |-> 0]
    /\ waited = [t \in Tasks |-> FALSE]
    /\ emitted = <<>>
    /\ bind = NoBind

\* every task's function is wrapped by credit_rate_limit / rate_limit with
\* the limiter instance it is bound to
Init ==
    /\ InitLimiters
    /\ via = [t \in Tasks |-> IF uses[t] = "credit" THEN "credit_rate_limit"
                                                    ELSE "rate_limit"]

\* ------------------------------------------------------ credit limiter
\* One pass of the `while True` loop of CreditRateLimiter.__aenter__ run by
\* task t; rc is self.request_credits when the pass runs.
CreditAEnter(t, rc) ==
    LET now == clock
        purged == Purge(timestamped_credits, now)
    IN  IF CreditHasRoom(purged)
        THEN LET appended == Append(purged, [ts |-> now, credits |-> rc, id |-> t])
             IN  /\ timestamped_credits' = appended
                 /\ clock' = now
                 /\ pc' = [pc EXCEPT ![t] = "run"]
                 /\ adm' = [adm EXCEPT ![t] = now]
                 /\ released' = Release(timestamped_credits, appended)
                 /\ emitted' = CreditPurgeLog(timestamped_credits, now) \o
                        (IF CreditReachedLogged(credit_sum(purged),
                                                credit_sum(appended), max_credits)
                         THEN <<"credit_reached">> ELSE <<>>)
                 /\ UNCHANGED waited
        ELSE /\ timestamped_credits' = purged
             /\ clock' = clock
             /\ pc' = [pc EXCEPT ![t] = "sleep"]
             /\ waited' = [waited EXCEPT ![t] = TRUE]
             /\ released' = Release(timestamped_credits, purged)
             /\ emitted' = CreditPurgeLog(timestamped_credits, now)
             /\ UNCHANGED adm

\* wrapper of credit_rate_limit up to its first suspension:
\* rate_limiter(request_credits), i.e. __call__, then __aenter__'s first pass
CreditEnter(t) ==
    /\ pc[t] = "start"
    /\ uses[t] = "credit"
    /\ \E rc \in Weights :
        /\ request_credits' = rc
        /\ weight' = [weight EXCEPT ![t] = rc]
        /\ CreditAEnter(t, rc)
    /\ UNCHANGED <<timestamps, uses, via, result, bind>>

\* a task wakes from asyncio.sleep(self.retry) and runs the next pass
CreditResume(t) ==
    /\ pc[t] = "sleep"
    /\ uses[t] = "credit"
    /\ CreditAEnter(t, request_credits)
    /\ UNCHANGED <<request_credits, timestamps, uses, via, weight, result, bind>>

\* mutant of AExitReturn: __aexit__ returns a true value
AExitReturnsTrue == TRUE

\* the value CreditRateLimiter.__aexit__ / CountRateLimiter.__aexit__ return:
\* None, which is false, so `async with` re-raises the exception it was given
AExitReturn == FALSE

\* what the wrapper's caller gets: the outcome of `await func(...)` after
\* `async with` has run __aexit__, which returned swallow
WrapperResult(outcome, swallow) ==
    CASE outcome = "ok" -> "returned"
      [] outcome = "raise" -> IF swallow THEN "swallowed" ELSE "raised"

\* how `await func(...)` ends: it returns, or an exception leaves it, be it
\* the operation's own or the CancelledError of a cancelled task
Outcomes == {"ok", "raise"}

\* mutant of AExitCredits: __aexit__ gives the credits of the request back
AExitCreditsDropOwn(pool, t) == SelectSeq(pool, LAMBDA e : e.id # t)

\* timestamped_credits after CreditRateLimiter.__aexit__ of task t: the body
\* only resets request_credits
AExitCredits(pool, t) == pool

\* `await func(...)` ends (returns, raises or is cancelled) and the wrapper of
\* credit_rate_limit leaves its `async with`: CreditRateLimiter.__aexit__
CreditExit(t) ==
    /\ pc[t] = "run"
    /\ uses[t] = "credit"
    /\ \E o \in Outcomes : result' = [result EXCEPT ![t] = WrapperResult(o, AExitReturn)]
    /\ request_credits' = -1
    /\ timestamped_credits' = AExitCredits(timestamped_credits, t)
    /\ released' = Release(timestamped_credits, timestamped_credits')
    /\ pc' = [pc EXCEPT ![t] = "done"]
    /\ weight' = [weight EXCEPT ![t] = 0]
    /\ emitted' = <<>>
    /\ UNCHANGED <<clock, timestamps, uses, via, adm, waited, bind>>

\* ------------------------------------------------------- count limiter
\* One pass of the `while True` loop of CountRateLimiter.__aenter__ run by
\* task t.
CountAEnter(t) ==
    LET now == clock
        purged == Purge(timestamps, now)
    IN  IF CountHasRoom(purged)
        THEN LET appended == Append(purged, [ts |-> now, id |-> t])
             IN  /\ timestamps' = appended
                 /\ clock' = now
                 /\ pc' = [pc EXCEPT ![t] = "run"]
                 /\ adm' = [adm EXCEPT ![t] = now]
                 /\ released' = Release(timestamps, appended)
                 /\ emitted' = CountPurgeLog(timestamps, now) \o
                        (IF CountReachedLogged(appended)
                         THEN <<"count_reached">> ELSE <<>>)
                 /\ UNCHANGED waited
        ELSE /\ timestamps' = purged
             /\ clock' = clock
             /\ pc' = [pc EXCEPT ![t] = "sleep"]
             /\ waited' = [waited EXCEPT ![t] = TRUE]
             /\ released' = Release(timestamps, purged)
             /\ emitted' = CountPurgeLog(timestamps, now)
             /\ UNCHANGED adm

\* wrapper of rate_limit up to its first suspension: __aenter__'s first pass
CountEnter(t) ==
    /\ pc[t] = "start"
    /\ uses[t] = "count"
    /\ CountAEnter(t)
    /\ UNCHANGED <<timestamped_credits, request_credits, uses, via, weight, result, bind>>

\* a task wakes from asyncio.sleep(self.retry) and runs the next pass
CountResume(t) ==
    /\ pc[t] = "sleep"
    /\ uses[t] = "count"
    /\ CountAEnter(t)
    /\ UNCHANGED <<timestamped_credits, request_credits, uses, via, weight, result, bind>>

\* mutant of AExitTimestamps: __aexit__ gives the unit back at once
AExitDropsOwn(pool, t) == SelectSeq(pool, LAMBDA e : e.id # t)

\* timestamps after CountRateLimiter.__aexit__ of task t: the body is `pass`
AExitTimestamps(pool, t) == pool

\* `await func(...)` ends and the wrapper of rate_limit leaves its
\* `async with`: CountRateLimiter.__aexit__
CountExit(t) ==
    /\ pc[t] = "run"
    /\ uses[t] = "count"
    /\ \E o \in Outcomes : result' = [result EXCEPT ![t] = WrapperResult(o, AExitReturn)]
    /\ timestamps' = AExitTimestamps(timestamps, t)
    /\ released' = Release(timestamps, timestamps')
    /\ pc' = [pc EXCEPT ![t] = "done"]
    /\ emitted' = <<>>
    /\ UNCHANGED <<clock, timestamped_credits, request_credits, uses, via, weight, adm,
                   waited, bind>>

\* ------------------------------------------------------ both limiters
\* The task is cancelled while suspended in asyncio.sleep(self.retry):
\* CancelledError leaves __aenter__, so `async with` never calls __aexit__.
CancelWait(t) ==
    /\ pc[t] = "sleep"
    /\ pc' = [pc EXCEPT ![t] = "done"]
    /\ result' = [result EXCEPT ![t] = "abandoned"]
    /\ weight' = [weight EXCEPT ![t] = 0]
    /\ emitted' = <<>>
    /\ UNCHANGED <<clock, timestamped_credits, request_credits, timestamps, uses, via,
                   adm, released, waited, bind>>

\* Some recorded entry is not yet older than interval: only then does the
\* passing of time change what a later pass of __aenter__ does (the code
\* reads the clock only in `now - ts > self.interval`), so the clock is
\* advanced only then and stays bounded without a cap.
TimeMatters ==
    \/ \E i \in 1..Len(timestamped_credits) :
            clock - timestamped_credits[i].ts <= interval
    \/ \E i \in 1..Len(timestamps) : clock - timestamps[i].ts <= interval

\* time passes between two steps of the tasks
Tick ==
    /\ TimeMatters
    /\ clock' = clock + 1
    /\ emitted' = <<>>
    /\ UNCHANGED <<timestamped_credits, request_credits, timestamps, uses, via, pc,
                   weight, result, adm, released, waited, bind>>

Step(t) ==
    \/ CreditEnter(t)
    \/ CreditResume(t)
    \/ CreditExit(t)
    \/ CountEnter(t)
    \/ CountResume(t)
    \/ CountExit(t)

Next ==
    \/ \E t \in Tasks : Step(t)
    \/ \E t \in Tasks : CancelWait(t)
    \/ Tick

Spec == Init /\ [][Next]_vars

\* asyncio runs every ready task (FIFO ready queue), every protected
\* operation ends, and time passes; cancellation is never forced.
FairSpec ==
    /\ Spec
    /\ \A t \in Tasks : WF_vars(Step(t))
    /\ WF_vars(Tick)

\* ------------------------------------- constructors and decorator factory
\* The calls that configure the library, each applied to arguments drawn
\* from small sets; bind records the call and what it gave.  The calls read
\* and write nothing but their arguments, so a behaviour examines one.

\* the integers passed as max_credits / max_count / interval / adjustment
MaxArg == 2
CtorArgs == -1..MaxArg

\* an optional argument: <<>> when omitted (None), <<v>> when v is passed
Optional(S) == {<<>>} \cup {<<v>> : v \in S}

\* the keyword parameters both __init__ declare besides max and interval
InitKeywords == {"retry", "name"}

\* CreditRateLimiter.__init__ / CountRateLimiter.__init__ called with
\* (max, intv) and the keywords kw: Python raises TypeError for a keyword
\* the signature does not declare; otherwise the body stores the arguments
\* as they are and starts with an empty list
LimiterInit(kind, max, intv, kw) ==
    IF ~(kw \subseteq InitKeywords)
    THEN [error |-> "TypeError"]
    ELSE [error |-> "none", kind |-> kind, max |-> max, interval |-> intv,
          entries |-> <<>>]

\* the age beyond which __aenter__ of the limiter pops an entry: the purge
\* test reads self.interval
Delay(limiter) == limiter.interval

Construct ==
    /\ bind = NoBind
    /\ \E kind \in {"credit", "count"}, max \in CtorArgs, intv \in CtorArgs,
          adjustment \in Optional(0..MaxArg) :
            bind' = [op |-> "construct", kind |-> kind, max |-> max,
                     interval |-> intv, adjustment |-> adjustment,
                     out |-> LimiterInit(kind, max, intv,
                                IF adjustment = <<>> THEN {} ELSE {"adjustment"})]
    /\ UNCHANGED <<clock, timestamped_credits, request_credits, timestamps, uses,
                   via, pc, weight, result, adm, released, waited, emitted>>

\* attribute names are Python identifiers
AttributeNames == {"my_rate_limiter"}

\* the values throughput may return
Decorators == {"credit_rate_limit", "rate_limit",
               "credit_rate_limit_with_attribute", "rate_limit_with_attribute"}

\* mutant of throughput: the attribute name is looked at before the instance
throughputAttributeFirst(rate_limiter, attribute_name, rc) ==
    IF attribute_name # <<>>
    THEN IF rc = <<>> THEN "rate_limit_with_attribute"
                      ELSE "credit_rate_limit_with_attribute"
    ELSE IF rate_limiter = "credit" /\ rc # <<>> /\ rc[1] # 0 THEN "credit_rate_limit"
    ELSE IF rate_limiter = "count" /\ (rc = <<>> \/ rc[1] = 0) THEN "rate_limit"
    ELSE "ValueError"

\* throughput(rate_limiter, attribute_name, request_credits); rate_limiter is
\* "None" or the class of the instance passed.  `if request_credits` is
\* Python truth: false for None and for 0.
throughput(rate_limiter, attribute_name, rc) ==
    LET truthy_rc == rc # <<>> /\ rc[1] # 0
        truthy_name == attribute_name # <<>>
    IN  IF rate_limiter = "credit"
        THEN IF truthy_rc /\ attribute_name = <<>>
             THEN "credit_rate_limit" ELSE "ValueError"
        ELSE IF rate_limiter = "count"
        THEN IF truthy_name \/ truthy_rc
             THEN "ValueError" ELSE "rate_limit"
        ELSE IF rate_limiter = "None" /\ attribute_name # <<>>
        THEN IF rc = <<>> THEN "rate_limit_with_attribute"
                          ELSE "credit_rate_limit_with_attribute"
        ELSE "ValueError"

\* throughput is called while the module that uses it is imported
Wrap ==
    /\ bind = NoBind
    /\ \E rate_limiter \in {"None", "credit", "count"},
          attribute_name \in Optional(AttributeNames),
          rc \in Optional(0..MaxWeight) :
            bind' = [op |-> "throughput", rate_limiter |-> rate_limiter,
                     attribute_name |-> attribute_name, request_credits |-> rc,
                     out |-> throughput(rate_limiter, attribute_name, rc)]
    /\ UNCHANGED <<clock, timestamped_credits, request_credits, timestamps, uses,
                   via, pc, weight, result, adm, released, waited, emitted>>

\* mutant of IsInstance: the wrapper does not look at the class
IsInstanceAny(kind, class) == TRUE

\* isinstance(limiter, class) for a limiter of class kind
IsInstance(kind, class) == kind = class

\* the class the wrapper of each attribute-based decorator requires
RequiredClass(decorator) ==
    IF decorator = "credit_rate_limit_with_attribute" THEN "credit" ELSE "count"

\* Task t calls a method wrapped by credit_rate_limit_with_attribute or
\* rate_limit_with_attribute and awaits what the wrapper returns; uses[t] is
\* the limiter getattr(self_, attribute_name) resolves to.  The wrapper
\* raises ValueError when the limiter is not of its class, otherwise it
\* returns the coroutine of credit_rate_limit / rate_limit on that limiter.
AttrCall(t) ==
    /\ pc[t] = "start"
    /\ via[t] \in {"credit_rate_limit_with_attribute", "rate_limit_with_attribute"}
    /\ IF IsInstance(uses[t], RequiredClass(via[t]))
       THEN CreditEnter(t) \/ CountEnter(t)
       ELSE /\ pc' = [pc EXCEPT ![t] = "done"]
            /\ result' = [result EXCEPT ![t] = "ValueError"]
            /\ emitted' = <<>>
            /\ UNCHANGED <<clock, timestamped_credits, request_credits, timestamps,
                           uses, via, weight, adm, released, waited, bind>>

\* the largest max_credits the log test is evaluated for
MaxBudget == 12

\* The log test of one admission, applied by itself: a limiter of max
\* credits whose credit_sum() is current_credits (below max, or the pass
\* would have slept) admits a request of rc credits.
CreditAdmitLog ==
    /\ bind = NoBind
    /\ \E max \in 1..MaxBudget, rc \in Weights :
         \E current_credits \in 0..(max - 1) :
            bind' = [op |-> "admit", max |-> max, current_credits |-> current_credits,
                     sum |-> current_credits + rc,
                     logged |-> CreditReachedLogged(current_credits,
                                                    current_credits + rc, max)]
    /\ UNCHANGED <<clock, timestamped_credits, request_credits, timestamps, uses,
                   via, pc, weight, result, adm, released, waited, emitted>>

\* the limiters of Init, every task's method wrapped by one of the
\* attribute-based decorators
ApiInit ==
    /\ InitLimiters
    /\ via \in [Tasks -> {"credit_rate_limit_with_attribute",
                          "rate_limit_with_attribute"}]

ApiNext ==
    \/ Construct
    \/ Wrap
    \/ \E t \in Tasks : AttrCall(t)
    \/ CreditAdmitLog

ApiSpec == ApiInit /\ [][ApiNext]_vars

\* ================================================================ claims
Admitted(t) == adm[t] >= 0

CreditTasks == {t \in Tasks : uses[t] = "credit"}
CountTasks == {t \in Tasks : uses[t] = "count"}

\* the number of entries task t's admission holds in the list of its limiter
Outstanding(t) ==
    LET pool == IF uses[t] = "credit" THEN timestamped_credits ELSE timestamps
    IN  Cardinality({i \in 1..Len(pool) : pool[i].id = t})

\* C1: the credits of the admitted, not yet released requests never sum to
\* more than max_credits.
C1_CreditSumWithinBudget == credit_sum(timestamped_credits) <= max_credits

\* C2: the entry recorded for a task that is inside its scope carries the
\* request_credits that task passed.
C2_ChargedOwnWeight ==
    \A i \in 1..Len(timestamped_credits) :
        LET e == timestamped_credits[i]
        IN  pc[e.id] = "run" => e.credits = weight[e.id]

\* C3: the count limiter never holds more than max_count outstanding
\* admissions.
C3_CountWithinCapacity == Len(timestamps) <= max_count

\* C3 witness: the count limiter is full and a task is held back by it.
C3_FullWithWaiter ==
    /\ Len(timestamps) = max_count
    /\ \E t \in CountTasks : pc[t] = "sleep"

\* the admissions of the count limiter recorded in the closed window
\* [T - interval, T]
CountAdmittedIn(T) ==
    {t \in CountTasks : Admitted(t) /\ T - interval <= adm[t] /\ adm[t] <= T}

\* C4: at every instant T, at most max_count admissions of the count limiter
\* lie in the closed window [T - interval, T].
C4_RollingWindow ==
    \A T \in 0..clock : Cardinality(CountAdmittedIn(T)) <= max_count

\* C4 witness: more than max_count requests were admitted in all, the last
\* one after waiting, and some window held max_count of them.
C4_WindowFilledThenReused ==
    /\ Cardinality({t \in CountTasks : Admitted(t)}) > max_count
    /\ \E t \in CountTasks : Admitted(t) /\ waited[t]
    /\ \E T \in 0..clock : Cardinality(CountAdmittedIn(T)) = max_count

\* task t2 runs a pass of __aenter__ of the limiter task t is bound to
PassOn(t, t2) ==
    /\ uses[t2] = uses[t]
    /\ CreditEnter(t2) \/ CreditResume(t2) \/ CountEnter(t2) \/ CountResume(t2)

C7_OverweightNeverAdmitted ==
    \A t \in CreditTasks : weight[t] > max_credits => ~Admitted(t)

\* C8: eventually every task has been admitted, unless it abandoned its wait
\* (being admitted and having abandoned both last once true).
C8_EveryCallerAdmitted ==
    <>(\A t \in Tasks : Admitted(t) \/ result[t] = "abandoned")

\* C8 witness: every task was admitted and one of them had to wait.
C8_AdmittedAfterWaiting ==
    /\ \A t \in Tasks : Admitted(t)
    /\ \E t \in Tasks : waited[t]

\* C9: request_credits is its reset value or the weight of a request that is
\* still waiting or running, never what a caller that abandoned its wait left.
C9_AbandonLeavesNoTrace ==
    \/ request_credits = -1
    \/ \E t \in CreditTasks : pc[t] \in {"sleep", "run"} /\ weight[t] = request_credits

\* C10: leaving the scope changes neither timestamps nor timestamped_credits.
C10_ExitKeepsCapacity ==
    [][\A t \in Tasks :
        (pc[t] = "run" /\ pc'[t] = "done") =>
            /\ timestamps' = timestamps
            /\ timestamped_credits' = timestamped_credits
      ]_vars

\* C10 witness: a request that returned still holds its entry, which is not
\* yet older than interval.
C10_FinishedStillCounted ==
    \E t \in Tasks :
        /\ result[t] = "returned"
        /\ Outstanding(t) = 1
        /\ clock - adm[t] <= interval

\* a pass of __aenter__ run by task t: the first one or one after a sleep
Pass(t) == CreditEnter(t) \/ CreditResume(t) \/ CountEnter(t) \/ CountResume(t)

\* the list of the limiter task t is bound to
PoolOf(t) == IF uses[t] = "credit" THEN timestamped_credits ELSE timestamps

C12_BadConfigurationRejected ==
    (bind.op = "construct" /\ (bind.max <= 0 \/ bind.interval <= 0))
        => bind.out.error # "none"

\* C13: a constructor called with a positive max, a positive interval and
\* an optional adjustment builds a limiter whose entries are given back
\* after max(0, interval - adjustment), adjustment being 0 when omitted
C13_DelayIsIntervalLessAdjustment ==
    (bind.op = "construct" /\ bind.max > 0 /\ bind.interval > 0) =>
        LET adjustment == IF bind.adjustment = <<>> THEN 0 ELSE bind.adjustment[1]
            delay == IF bind.interval - adjustment > 0
                     THEN bind.interval - adjustment ELSE 0
        IN  /\ bind.out.error = "none"
            /\ Delay(bind.out) = delay

\* C14: throughput raises ValueError for exactly the invalid combinations: a
\* CreditRateLimiter with no weight or with an attribute name, a
\* CountRateLimiter with any weight supplied (0 included) or with an
\* attribute name, neither a limiter nor an attribute name; for every other
\* combination it returns a decorator
C14_InvalidCombinationsRaise ==
    bind.op = "throughput" =>
        LET supplied_rc == bind.request_credits # <<>>
            supplied_name == bind.attribute_name # <<>>
            invalid ==
                \/ bind.rate_limiter = "credit" /\ (~supplied_rc \/ supplied_name)
                \/ bind.rate_limiter = "count" /\ (supplied_rc \/ supplied_name)
                \/ bind.rate_limiter = "None" /\ ~supplied_name
        IN  IF invalid THEN bind.out = "ValueError" ELSE bind.out \in Decorators

\* C15 as stated: a weight and an attribute name supplied to the same
\* throughput call always raise ValueError
C15_WeightWithAttributeRaises ==
    (/\ bind.op = "throughput"
     /\ bind.request_credits # <<>>
     /\ bind.attribute_name # <<>>) => bind.out = "ValueError"

\* C15 (amended): a weight and an attribute name supplied together raise
\* ValueError when a limiter instance is supplied too; with no instance
\* they select the attribute-based credit decorator
C15_WeightWithAttributeAndInstanceRaises ==
    (/\ bind.op = "throughput"
     /\ bind.request_credits # <<>>
     /\ bind.attribute_name # <<>>) =>
        bind.out = IF bind.rate_limiter = "None"
                   THEN "credit_rate_limit_with_attribute" ELSE "ValueError"

\* throughput was given a weight, an attribute name and a limiter instance,
\* and raised
C15_RaisedWithInstance ==
    /\ bind.op = "throughput"
    /\ bind.request_credits # <<>>
    /\ bind.attribute_name # <<>>
    /\ bind.rate_limiter # "None"
    /\ bind.out = "ValueError"

\* C16: a call through an attribute-based wrapper whose attribute resolves
\* to a limiter of the other class ends with ValueError in that step: the
\* wrapped function is not run, no admission is recorded, and no field of
\* either limiter changes
C16_WrongKindRaisesBeforeAdmission ==
    [][\A t \in Tasks :
          (AttrCall(t) /\ uses[t] # RequiredClass(via[t])) =>
            /\ result'[t] = "ValueError"
            /\ pc'[t] = "done"
            /\ adm' = adm
            /\ UNCHANGED <<timestamped_credits, request_credits, timestamps>>
      ]_vars

\* a call was refused with ValueError on a limiter that holds the entry of
\* an admission made through the right wrapper
C16_RefusedOnUsedLimiter ==
    \E t, t2 \in Tasks :
        /\ result[t] = "ValueError"
        /\ ~Admitted(t)
        /\ uses[t2] = uses[t]
        /\ Admitted(t2)
        /\ Outstanding(t2) = 1

\* C17: the two limiter instances are independent: a step of a task on one
\* limiter (a pass of __aenter__, a wait abandoned, a scope exit) leaves
\* every field of the other unchanged, and whether a pass admits is decided
\* by the own list of the limiter alone
C17_LimitersIndependent ==
    [][\A t \in Tasks :
          /\ (uses[t] = "credit" /\ (Step(t) \/ CancelWait(t)))
                => timestamps' = timestamps
          /\ (uses[t] = "count" /\ (Step(t) \/ CancelWait(t)))
                => /\ timestamped_credits' = timestamped_credits
                   /\ request_credits' = request_credits
          /\ (uses[t] = "credit" /\ Pass(t))
                => (pc'[t] = "run"
                      <=> credit_sum(Purge(timestamped_credits, clock)) < max_credits)
          /\ (uses[t] = "count" /\ Pass(t))
                => (pc'[t] = "run"
                      <=> Len(Purge(timestamps, clock)) < max_count)
      ]_vars

\* a count request was admitted while the credit limiter was at its limit
C17_AdmittedBesideFullLimiter ==
    /\ credit_sum(timestamped_credits) >= max_credits
    /\ \E t \in CountTasks, t2 \in CreditTasks :
            /\ Admitted(t)
            /\ Admitted(t2)
            /\ adm[t] >= adm[t2]
            /\ clock - adm[t2] <= interval

\* how often the latest step logged record m
Logged(m) == Cardinality({i \in 1..Len(emitted) : emitted[i] = m})

C19_LoggedOnCrossingNinetyPercent ==
    bind.op = "admit" =>
        (bind.logged <=> /\ 10 * bind.current_credits <= 9 * bind.max
                         /\ 10 * bind.sum > 9 * bind.max)

\* C20: a pass of __aenter__ admits its caller exactly when it finds enough
\* free capacity after the purge, a free unit on the count limiter and
\* available >= weight on the credit limiter: with capacity it admits in
\* that step without sleeping, and without capacity the caller waits until
\* capacity has been given back
C20_AdmittedExactlyWithCapacity ==
    [][\A t \in Tasks :
          Pass(t) =>
            (pc'[t] = "run" <=>
                IF uses[t] = "count"
                THEN Len(Purge(timestamps, clock)) < max_count
                ELSE max_credits - credit_sum(Purge(timestamped_credits, clock))
                        >= weight'[t])
      ]_vars

\* the entries of old that are no longer in new
Gone(old, new) ==
    {i \in 1..Len(old) : ~(\E j \in 1..Len(new) : new[j] = old[i])}

\* C21: an entry leaves timestamped_credits / timestamps only in a step
\* that is a pass of __aenter__ on the same limiter by another task, whose
\* clock reading is more than interval after the entry's timestamp; no
\* other step removes one, neither a scope exit, whether the protected
\* operation returned or raised, nor an abandoned wait, nor time passing
C21_NoEarlyRelease ==
    [][/\ \A i \in Gone(timestamped_credits, timestamped_credits') :
            LET e == timestamped_credits[i]
            IN  /\ clock - e.ts > interval
                /\ \E t \in CreditTasks \ {e.id} : Pass(t)
       /\ \A i \in Gone(timestamps, timestamps') :
            LET e == timestamps[i]
            IN  /\ clock - e.ts > interval
                /\ \E t \in CountTasks \ {e.id} : Pass(t)
      ]_vars

\* the protected operation of a credit request raised, its entry stayed, and
\* a later acquisition more than interval after it removed the entry
C21_FailedThenPurgedLater ==
    \E t, t2 \in CreditTasks :
        /\ result[t] = "raised"
        /\ released[t] = 1
        /\ Outstanding(t) = 0
        /\ Admitted(t2)
        /\ adm[t2] - adm[t] > interval

\* the timestamps of a list never decrease from head to tail
Sorted(pool) == \A i, j \in 1..Len(pool) : i <= j => pool[i].ts <= pool[j].ts

\* the tasks bound to limiter k whose admission is not older than interval
RecentlyAdmitted(k) ==
    {t \in Tasks : uses[t] = k /\ Admitted(t) /\ clock - adm[t] <= interval}

\* C22: both lists are always in non-decreasing order of timestamp, so at
\* any clock reading the head-only purge leaves no entry older than
\* interval, and what the admission test then counts is exactly the
\* admissions of the last interval
C22_PurgeComplete ==
    /\ Sorted(timestamped_credits)
    /\ Sorted(timestamps)
    /\ LET purged == Purge(timestamped_credits, clock)
       IN  /\ \A i \in 1..Len(purged) : clock - purged[i].ts <= interval
           /\ Ids(purged) = RecentlyAdmitted("credit")
           /\ Len(purged) = Cardinality(RecentlyAdmitted("credit"))
    /\ LET purged == Purge(timestamps, clock)
       IN  /\ \A i \in 1..Len(purged) : clock - purged[i].ts <= interval
           /\ Ids(purged) = RecentlyAdmitted("count")
           /\ Len(purged) = Cardinality(RecentlyAdmitted("count"))

\* two admissions recorded at different clock readings, the older one
\* expired and the younger one not: the purge of an acquisition attempted
\* now pops the head and stops at the second entry
C22_HeadExpiredTailRecent ==
    /\ Len(timestamped_credits) = 2
    /\ timestamped_credits[1].ts < timestamped_credits[2].ts
    /\ clock - timestamped_credits[1].ts > interval
    /\ clock - timestamped_credits[2].ts <= interval
    /\ Len(Purge(timestamped_credits, clock)) = 1
====
